---- MODULE Spec2Model ----
(***************************************************************************)
(* Item lifecycle of the "send" service: upload (encrypt and save), the    *)
(* transactional read-decrypt-decrement of db.Read behind POST /api/text   *)
(* and POST /file, the Exists probe behind GET /{key}, and the GC monitor  *)
(* (deletion channel and periodic sweep), the storage limit, and the       *)
(* shutdown sequence of main.                                              *)
(*                                                                         *)
(* The database is the SQLite file opened by cfg.New with the default      *)
(* (deferred) transactions of database/sql: a SELECT inside a transaction  *)
(* takes a shared lock kept until commit or rollback, the first writing    *)
(* statement takes the single reserved (writer) lock, a transaction that   *)
(* has already read and finds the writer lock taken fails at once with     *)
(* "database is locked", a transaction that has not read waits for it and  *)
(* fails with the same error when the busy timeout of the driver passes    *)
(* first, and a commit waits until no other transaction holds a shared     *)
(* lock, while new shared locks wait for it (pending lock).  What a        *)
(* transaction wrote stays private to it until its commit.                 *)
(***************************************************************************)
EXTENDS Integers, Sequences, FiniteSets, TLC

\* ------------------------------------------------------------ bounds
\* number of keys (uploads that reach encryption) in one run
MaxItems == 1
\* settings.times: upper limit of the "times" form field
MaxTimes == 2
\* settings.ttl: upper limit of the "ttl" form field, in clock units
MaxTTL == 1
\* last value of the clock
MaxNow == 3
\* concurrent request handlers
MaxProc == 2
\* requests served in one run
MaxReq == 4
\* number of keys in one run of the two-item scenarios
MaxPair == 2

\* ------------------------------------------------------------ program constants
\* capacity of the delItem channel
DelItemCap == 1
\* HTTP status codes used by the handlers
StatusOK == 200
StatusCreated == 201
StatusNoContent == 204
StatusBadRequest == 400
StatusNotFound == 404
StatusInternalServerError == 500

\* decryption flags
FlagText == "Text"
FlagMeta == "Meta"
FlagFile == "File"
AllFlags == {FlagText, FlagMeta, FlagFile}

\* errors returned by db.Read
ErrNone == "nil"
ErrNoRows == "sql.ErrNoRows"
ErrNoAttempts == "ErrNoAttempts"
ErrSecret == "ErrSecret"
ErrDecrement == "ErrDecrement"
ErrLocked == "database is locked"
ErrOpenFile == "open file for decryption"
ErrCopy == "copy for decryption"
\* error of Storage.Limit
ErrLimit == "storage limit is reached"
\* messages of validateUpload (IndexData.Error)
ErrEmpty == "empty text and file fields"
ErrTTL == "incorrect TTL"
ErrTimes == "incorrect times"
\* runtime panic of a send after close(delItem)
ErrClosed == "send on closed channel"

\* passwords a client can type; the stored hash of a field stands for the
\* (salt, verifier) pair and is equal exactly for the secret that made it
Passwords == {"pw", "other"}
NoHash == ""
\* the salt of an encrypted field (encrypt.Salt, random bytes in hex)
NoSalt == ""
Salted == "salt"

Handlers == 1..MaxProc
GC == 0
Keys == 1..MaxItems
\* the keys of the two-item scenarios
PairKeys == 1..MaxPair

VARIABLES
    rows,       \* committed rows of table storage: key -> row
    nextID,     \* AUTOINCREMENT of storage.id
    nextKey,    \* keys handed out so far (uuid of the upload request)
    blobs,      \* files of the storage directory: path -> size
    limit,      \* Storage.limit
    now,        \* clock (time.Now)
    shared,     \* transactions holding a shared lock
    reserved,   \* transaction holding the writer lock (at most one)
    proc,       \* request handlers: position, request, in-memory item
    gc,         \* GC monitor: position, items in hand
    delItem,    \* the deletion channel
    nreq,       \* requests started
    hist,       \* per key: what was uploaded and which reads committed
    last,       \* the request answered last, with its answer
    main        \* main: position in the shutdown sequence

vars == <<rows, nextID, nextKey, blobs, limit, now, shared, reserved, proc, gc,
          delItem, nreq, hist, last, main>>

\* capacity of the blob directory (storage.size), in size units
StorageSize == 3
\* sizes of uploaded files
FileSizes == {1}

\* ------------------------------------------------------------ items
\* Item with nothing loaded (&Item{})
EmptyItem ==
    [ID |-> 0, Key |-> 0, Text |-> "", FileMeta |-> "", FilePath |-> 0,
     CountText |-> 0, CountMeta |-> 0, CountFile |-> 0,
     HashText |-> NoHash, HashMeta |-> NoHash, HashFile |-> NoHash,
     SaltText |-> NoSalt, SaltMeta |-> NoSalt, SaltFile |-> NoSalt,
     Expired |-> 0]

\* validateInt: the field is in [1; max]
validateInt(v, max) == ~((v < 1) \/ (v > max))

\* counters where the meta can be read as often as one field
NewCounters_MetaOnce(hasText, hasFile, times) ==
    [CountText |-> IF hasText THEN times ELSE 0, CountMeta |-> times,
     CountFile |-> IF hasFile THEN times ELSE 0]

\* validateUpload, "db item prepare": the counters of a new item
NewCounters(hasText, hasFile, times) ==
    LET countText == IF ~hasFile THEN times ELSE IF ~hasText THEN 0 ELSE times
        countFile == IF ~hasFile THEN 0 ELSE times
    IN  [CountText |-> countText, CountMeta |-> countText + countFile,
         CountFile |-> countFile]

\* an encryption that salts and hashes the fields that are not there too
EncryptItem_EveryField(key, hasText, hasFile, password, times, ttl) ==
    LET c == NewCounters(hasText, hasFile, times)
    IN  [ID |-> 0, Key |-> key,
         Text |-> IF hasText THEN "cipher" ELSE "",
         FileMeta |-> IF hasFile THEN "cipher" ELSE "",
         FilePath |-> IF hasFile THEN key ELSE 0,
         CountText |-> c.CountText, CountMeta |-> c.CountMeta,
         CountFile |-> c.CountFile,
         HashText |-> password, HashMeta |-> password, HashFile |-> password,
         SaltText |-> Salted, SaltMeta |-> Salted, SaltFile |-> Salted,
         Expired |-> now + ttl]

\* Item.Encrypt: every present field replaced by its ciphertext, with the
\* hash of the secret and the salt; the file is written to the storage
\* directory
EncryptItem(key, hasText, hasFile, password, times, ttl) ==
    LET c == NewCounters(hasText, hasFile, times)
    IN  [ID |-> 0, Key |-> key,
         Text |-> IF hasText THEN "cipher" ELSE "",
         FileMeta |-> IF hasFile THEN "cipher" ELSE "",
         FilePath |-> IF hasFile THEN key ELSE 0,
         CountText |-> c.CountText, CountMeta |-> c.CountMeta,
         CountFile |-> c.CountFile,
         HashText |-> IF hasText THEN password ELSE NoHash,
         HashMeta |-> IF hasFile THEN password ELSE NoHash,
         HashFile |-> IF hasFile THEN password ELSE NoHash,
         SaltText |-> IF hasText THEN Salted ELSE NoSalt,
         SaltMeta |-> IF hasFile THEN Salted ELSE NoSalt,
         SaltFile |-> IF hasFile THEN Salted ELSE NoSalt,
         Expired |-> now + ttl]

\* a limit that is never reached
LimitOK_NoSize(v) == TRUE

\* Storage.Limit: reserve v bytes, or fail at the configured size
LimitOK(v) == ~(limit + v > StorageSize)

\* ------------------------------------------------------------ locks
\* a SELECT can take a shared lock: no writer is waiting to commit (a
\* transaction that has written goes straight to its commit)
CanShare == reserved = {}
\* a writing statement can take the writer lock
CanReserve(p) == reserved \subseteq {p}
\* a commit that does not wait for the readers of the database
CanCommit_NoWait(p) == TRUE
\* a commit can take the exclusive lock
CanCommit(p) == shared \subseteq {p}
\* InTransaction, end of the transaction (commit or rollback): locks dropped
Release(p) == /\ shared' = shared \ {p}
              /\ reserved' = reserved \ {p}

IdleProc ==
    [pc |-> "idle", kind |-> "none", key |-> 0, pw |-> "", item |-> EmptyItem,
     err |-> ErrNone, code |-> 0, dec |-> <<0, 0, 0>>, times |-> 0,
     AutoPassword |-> FALSE]

\* the answer of a handler to its request
\* row is what the request found under the key ("none", "dead" or "live"),
\* dec what it took from the stored counters (text, meta, file)
Answer(kind, key, pw, row, err, code, dec) ==
    [kind |-> kind, key |-> key, pw |-> pw, row |-> row, err |-> err,
     code |-> code, dec |-> dec, Password |-> "", PwdDisable |-> FALSE]

NoAnswer == Answer("none", 0, "", "none", ErrNone, 0, <<0, 0, 0>>)

\* the history of a key: the upload that made it, the reads that returned the
\* item (ok*), the reads with its password that were answered (n*), whether
\* one of them ended in a storage error (odd) or came after the date (late),
\* whether the streaming of a read file failed (cut), whether its file was
\* removed from outside the service (lost)
NoHist == [made |-> FALSE, hasText |-> FALSE, hasFile |-> FALSE, times |-> 0,
           pw |-> "", expired |-> 0, okText |-> 0, okFile |-> 0, okAll |-> 0,
           nText |-> 0, nFile |-> 0, odd |-> FALSE, late |-> FALSE,
           cut |-> FALSE, lost |-> FALSE]

\* the history of a key starts when its item is saved
Saved(item, password) ==
    [NoHist EXCEPT !.made = TRUE, !.hasText = (item.Text # ""),
                   !.hasFile = (item.FileMeta # ""),
                   !.times = IF item.Text # "" THEN item.CountText
                             ELSE item.CountFile,
                   !.pw = password, !.expired = item.Expired]

\* the history after a read of kind with password pw is answered with err
HistAnswer(h, kind, pw, err) ==
    IF ~h.made \/ pw # h.pw THEN h
    ELSE [h EXCEPT !.nText = IF kind = "text" THEN @ + 1 ELSE @,
                   !.nFile = IF kind = "file" THEN @ + 1 ELSE @,
                   !.odd = @ \/ err \in {ErrLocked, ErrDecrement},
                   !.cut = @ \/ err \in {ErrOpenFile, ErrCopy}]

Init ==
    /\ rows = <<>>
    /\ nextID = 1
    /\ nextKey = 1
    /\ blobs = <<>>
    /\ limit = 0
    /\ now = 0
    /\ shared = {}
    /\ reserved = {}
    /\ proc = [p \in Handlers |-> IdleProc]
    /\ gc = [pc |-> "wait", items |-> <<>>]
    /\ delItem = <<>>
    /\ nreq = 0
    /\ hist = [k \in Keys \cup PairKeys |-> NoHist]
    /\ last = NoAnswer
    /\ main = "serve"

\* a handler takes the next request
Accept(p) == /\ proc[p].pc = "idle"
             /\ main = "serve"
             /\ nreq < MaxReq
             /\ nreq' = nreq + 1

\* ------------------------------------------------------------ upload
\* settings.salt of the configuration
SettingsSalt == "abc"

\* Config.Secret: the password with the salt of the settings appended
Secret(p) == p \o SettingsSalt

\* the password pwgen.New returns
Generated == "gen"
\* the placeholder shown for a password of the uploader
Masked == "*****"

\* validateUpload, "password": an empty field is filled by the generator
UploadPassword(password) ==
    IF password = "" THEN [password |-> Generated, autoPassword |-> TRUE]
    ELSE [password |-> password, autoPassword |-> FALSE]

\* a response that shows every password
UploadData_Clear(password, autoPassword) ==
    [Password |-> password, PwdDisable |-> FALSE]

\* uploadCommon: Password and PwdDisable of the response after Item.Save
UploadData(password, autoPassword) ==
    IF ~autoPassword THEN [Password |-> Masked, PwdDisable |-> TRUE]
    ELSE [Password |-> password, PwdDisable |-> FALSE]

\* a validation that takes a request with neither text nor file
UploadError_AnyFields(hasText, hasFile, ttl, times) ==
    IF ~validateInt(ttl, MaxTTL) THEN ErrTTL
    ELSE IF ~validateInt(times, MaxTimes) THEN ErrTimes
    ELSE ErrNone

\* validateUpload after the file: text, ttl and times are checked in turn
UploadError(hasText, hasFile, ttl, times) ==
    IF ~hasFile /\ ~hasText THEN ErrEmpty
    ELSE IF ~validateInt(ttl, MaxTTL) THEN ErrTTL
    ELSE IF ~validateInt(times, MaxTimes) THEN ErrTimes
    ELSE ErrNone

\* validateUpload: a rejected request (400), or an encrypted item with its
\* blob on disk, ready to be saved; a run takes at most cap items
UploadValidate(p, cap, hasText, hasFile, size, ttl, times, password) ==
    /\ Accept(p)
    /\ IF hasFile /\ ~LimitOK(size)
       THEN /\ last' = Answer("upload", 0, password, "none", ErrLimit,
                              StatusBadRequest, <<0, 0, 0>>)
            /\ UNCHANGED <<limit, blobs, nextKey, hist, proc>>
       ELSE /\ limit' = IF hasFile THEN limit + size ELSE limit
            /\ IF UploadError(hasText, hasFile, ttl, times) # ErrNone
               THEN /\ last' = Answer("upload", 0, password, "none",
                                      UploadError(hasText, hasFile, ttl, times),
                                      StatusBadRequest, <<0, 0, 0>>)
                    /\ UNCHANGED <<blobs, nextKey, hist, proc>>
               ELSE /\ nextKey <= cap
                    /\ now + ttl < MaxNow
                    /\ nextKey' = nextKey + 1
                    /\ blobs' = IF hasFile THEN (nextKey :> size) @@ blobs
                                ELSE blobs
                    /\ proc' = [proc EXCEPT ![p] =
                          [IdleProc EXCEPT !.pc = "save", !.kind = "upload",
                             !.key = nextKey,
                             !.pw = UploadPassword(password).password,
                             !.times = times,
                             !.AutoPassword =
                                 UploadPassword(password).autoPassword,
                             !.item = EncryptItem(nextKey, hasText, hasFile,
                                         UploadPassword(password).password,
                                         times, ttl)]]
                    /\ UNCHANGED <<hist, last>>
    /\ UNCHANGED <<main, rows, nextID, now, shared, reserved, gc, delItem>>

\* an INSERT that does not wait for the file of the item
UploadInsert_Early(p) ==
    /\ proc[p].pc \in {"copy", "save"}
    /\ CanReserve(p)
    /\ reserved' = {p}
    /\ proc' = [proc EXCEPT ![p].pc = "savecommit", ![p].item.ID = nextID]
    /\ nextID' = nextID + 1
    /\ UNCHANGED <<main, rows, nextKey, blobs, limit, now, shared, gc, delItem, nreq,
                   hist, last>>

\* Item.Save: the INSERT takes the writer lock (waiting for it)
UploadInsert(p) ==
    /\ proc[p].pc = "save"
    /\ CanReserve(p)
    /\ reserved' = {p}
    /\ proc' = [proc EXCEPT ![p].pc = "savecommit", ![p].item.ID = nextID]
    /\ nextID' = nextID + 1
    /\ UNCHANGED <<main, rows, nextKey, blobs, limit, now, shared, gc, delItem, nreq,
                   hist, last>>

\* Item.Save: the writer lock stays taken past the busy timeout and the
\* INSERT fails; uploadCommon returns the error (500)
UploadInsertBusy(p) ==
    /\ proc[p].pc = "save"
    /\ ~CanReserve(p)
    /\ proc' = [proc EXCEPT ![p] = IdleProc]
    /\ last' = Answer("upload", proc[p].key, proc[p].pw, "none", ErrLocked,
                      StatusInternalServerError, <<0, 0, 0>>)
    /\ UNCHANGED <<main, rows, nextID, nextKey, blobs, limit, now, shared,
                   reserved, gc, delItem, nreq, hist>>

\* Item.Save: commit; uploadCommon answers 201
UploadCommit(p) ==
    /\ proc[p].pc = "savecommit"
    /\ CanCommit(p)
    /\ rows' = (proc[p].key :> proc[p].item) @@ rows
    /\ Release(p)
    /\ proc' = [proc EXCEPT ![p] = IdleProc]
    /\ last' = [Answer("upload", proc[p].key,
                       IF proc[p].AutoPassword THEN "" ELSE proc[p].pw,
                       "none", ErrNone, StatusCreated, <<0, 0, 0>>)
                EXCEPT !.Password =
                           UploadData(proc[p].pw, proc[p].AutoPassword).Password,
                       !.PwdDisable =
                           UploadData(proc[p].pw, proc[p].AutoPassword).PwdDisable]
    /\ hist' = [hist EXCEPT ![proc[p].key] = Saved(proc[p].item, proc[p].pw)]
    /\ UNCHANGED <<main, nextID, nextKey, blobs, limit, now, gc, delItem, nreq>>

\* ------------------------------------------------------------ db.Read
\* a row selected by key and counters, whatever its date
readable_AnyDate(key, t) ==
    /\ key \in DOMAIN rows
    /\ ((rows[key].CountText > 0) \/ (rows[key].CountFile > 0))

\* Item.read: the row is selected by key while unexpired with a counter left
readable(key, t) ==
    /\ key \in DOMAIN rows
    /\ rows[key].Expired >= t
    /\ ((rows[key].CountText > 0) \/ (rows[key].CountFile > 0))

\* Item.validate: there are attempts to read the requested data
validate(item, flags) ==
    LET failed == \/ (FlagText \in flags /\ item.CountText < 1)
                  \/ (FlagMeta \in flags /\ item.CountMeta < 1)
                  \/ (FlagFile \in flags /\ item.CountFile < 1)
    IN  IF failed THEN ErrNoAttempts ELSE ErrNone

\* a decryption that accepts any secret
DecryptText_AnySecret(secret, hash) == ErrNone

\* encrypt.DecryptText: the hash of the secret is compared with the stored one
DecryptText(secret, hash) == IF secret # hash THEN ErrSecret ELSE ErrNone

\* Item.decryptText
decryptText(item, secret, e) ==
    IF e # ErrNone THEN e
    ELSE IF item.Text = "" THEN ErrNone
    ELSE DecryptText(secret, item.HashText)

\* Item.decryptFileMeta
decryptFileMeta(item, secret, e) ==
    IF e # ErrNone THEN e
    ELSE IF item.FileMeta = "" THEN ErrNone
    ELSE DecryptText(secret, item.HashMeta)

\* encrypt.DecryptFile, verification of the secret against the stored hash
DecryptFileSecret(secret, hash) == IF secret # hash THEN ErrSecret ELSE ErrNone

\* encrypt.DecryptFile: the secret is verified, the blob opened and copied to
\* dst; copyOK is whether the client takes all the bytes
DecryptFile(secret, item, copyOK) ==
    IF DecryptFileSecret(secret, item.HashFile) # ErrNone THEN ErrSecret
    ELSE IF item.FilePath \notin DOMAIN blobs THEN ErrOpenFile
    ELSE IF ~copyOK THEN ErrCopy
    ELSE ErrNone

\* Item.decryptFile: nothing is decrypted without a file or without dst
decryptFile(item, secret, dst, copyOK, e) ==
    IF e # ErrNone THEN e
    ELSE IF (item.FileMeta = "") \/ ~dst THEN ErrNone
    ELSE DecryptFile(secret, item, copyOK)

\* Item.Decrypt: text, then meta, then file, as far as flags ask
Decrypt(item, secret, dst, copyOK, flags, err) ==
    IF err # ErrNone THEN err
    ELSE LET e1 == IF FlagText \in flags THEN decryptText(item, secret, ErrNone)
                   ELSE ErrNone
             e2 == IF FlagMeta \in flags THEN decryptFileMeta(item, secret, e1)
                   ELSE e1
         IN  IF FlagFile \in flags THEN decryptFile(item, secret, dst, copyOK, e2)
             ELSE e2

\* the fields Item.Decrypt leaves in the in-memory item
Decrypted(item, flags) ==
    [item EXCEPT !.Text = IF FlagText \in flags /\ item.Text # "" THEN "plain"
                          ELSE item.Text,
                 !.FileMeta = IF FlagMeta \in flags /\ item.FileMeta # "" THEN "plain"
                              ELSE item.FileMeta]

\* all decryption flags, as Item.decrement walks them
flagSlice == <<FlagText, FlagMeta, FlagMeta>>

\* Item.decrement: the map of counters handed to the UPDATE
counters(flags) ==
    [f \in AllFlags |->
        IF \E i \in 1..Len(flagSlice) : flagSlice[i] = f /\ f \in flags
        THEN 1 ELSE 0]

\* an UPDATE that gives attempts back
UpdateRow_Add(row, flags) ==
    [row EXCEPT !.CountText = row.CountText + counters(flags)[FlagText],
                !.CountMeta = row.CountMeta + counters(flags)[FlagMeta],
                !.CountFile = row.CountFile + counters(flags)[FlagFile]]

\* Item.decrement: the UPDATE statement applied to a row
UpdateRow(row, flags) ==
    [row EXCEPT !.CountText = row.CountText - counters(flags)[FlagText],
                !.CountMeta = row.CountMeta - counters(flags)[FlagMeta],
                !.CountFile = row.CountFile - counters(flags)[FlagFile]]

\* Item.decrement: the in-memory counters after a successful UPDATE
DecrementItem(item, flags) ==
    [item EXCEPT !.CountText = IF FlagText \in flags THEN item.CountText - 1
                               ELSE item.CountText,
                 !.CountMeta = IF FlagMeta \in flags THEN item.CountMeta - 1
                               ELSE item.CountMeta,
                 !.CountFile = IF FlagFile \in flags THEN item.CountFile - 1
                               ELSE item.CountFile]

\* Item.notActive
notActive(item) == ~(item.CountText > 0 \/ item.CountFile > 0)

\* the flags each handler passes to db.Read
KindFlags(kind) ==
    CASE kind = "text" -> {FlagText, FlagMeta}
      [] kind = "file" -> {FlagMeta, FlagFile}
      [] kind = "all"  -> {FlagText, FlagMeta, FlagFile}
      [] OTHER -> {}

\* a status of its own for an item without attempts
ReadErrCode_Gone(err) ==
    IF err = ErrNoRows THEN StatusNotFound
    ELSE IF err = ErrNoAttempts THEN 410
    ELSE IF err = ErrSecret THEN StatusBadRequest
    ELSE StatusInternalServerError

\* textAPIHandler / fileHandler: the status for an error of db.Read
ReadErrCode(err) ==
    IF err = ErrNoAttempts \/ err = ErrNoRows THEN StatusNotFound
    ELSE IF err = ErrSecret THEN StatusBadRequest
    ELSE StatusInternalServerError

\* textAPIHandler / fileHandler: the message (ErrItem.Err) sent with the
\* status for an error of db.Read
ReadErrBody(kind, err) ==
    IF err = ErrNoAttempts \/ err = ErrNoRows THEN "not found"
    ELSE IF err = ErrSecret
         THEN (IF kind = "file" THEN "failed secret" ELSE "failed password or key")
    ELSE "internal error"

\* the closure of db.Read up to Decrypt: read, validate, Decrypt
ReadHead(key, secret, flags, dst, copyOK) ==
    IF ~readable(key, now) THEN ErrNoRows
    ELSE Decrypt(rows[key], secret, dst, copyOK, flags, validate(rows[key], flags))

\* what a request finds under a key
RowState(key) ==
    IF key \notin DOMAIN rows THEN "none"
    ELSE IF readable(key, now) THEN "live" ELSE "dead"

\* what a step takes from the stored counters of a key
Consumed(old, new, key) ==
    IF key \in DOMAIN old /\ key \in DOMAIN new
    THEN <<old[key].CountText - new[key].CountText,
           old[key].CountMeta - new[key].CountMeta,
           old[key].CountFile - new[key].CountFile>>
    ELSE <<0, 0, 0>>

\* ------------------------------------------------------------ read handlers
\* db.Read, first part: BeginTx, Item.read, Item.validate, Item.Decrypt.
\* An error ends the transaction (rollback) and the caller answers it.
ReadBegin(p, kind, key, pw, dst, copyOK) ==
    /\ Accept(p)
    /\ CanShare
    /\ UNCHANGED <<main, rows, nextID, nextKey, blobs, limit, now, reserved, gc,
                   delItem>>
    /\ LET flags == KindFlags(kind)
           e == ReadHead(key, pw, flags, dst, copyOK)
           h == [hist[key] EXCEPT
                    !.late = @ \/ (hist[key].made /\ now > hist[key].expired)]
       IN  IF e # ErrNone
           THEN /\ last' = Answer(kind, key, pw, RowState(key), e, ReadErrCode(e),
                                  Consumed(rows, rows', key))
                /\ hist' = [hist EXCEPT ![key] = HistAnswer(h, kind, pw, e)]
                /\ UNCHANGED <<proc, shared>>
           ELSE /\ proc' = [proc EXCEPT ![p] =
                     [IdleProc EXCEPT !.pc = "update", !.kind = kind, !.key = key,
                                      !.pw = pw,
                                      !.item = Decrypted(rows[key], flags)]]
                /\ shared' = shared \cup {p}
                /\ hist' = [hist EXCEPT ![key] = h]
                /\ UNCHANGED last

\* rows the UPDATE ... WHERE id=? of a transaction affects
RowsAffected(id) == Cardinality({k \in DOMAIN rows : rows[k].ID = id})

\* db.Read, Item.decrement: the UPDATE takes the writer lock or fails
ReadUpdate(p) ==
    /\ proc[p].pc = "update"
    /\ UNCHANGED <<main, rows, nextID, nextKey, blobs, limit, now, gc, delItem, nreq>>
    /\ LET flags == KindFlags(proc[p].kind)
           k == proc[p].key
           e == IF ~CanReserve(p) THEN ErrLocked
                ELSE IF RowsAffected(proc[p].item.ID) # 1 THEN ErrDecrement
                ELSE ErrNone
       IN  IF e # ErrNone
           THEN /\ proc' = [proc EXCEPT ![p] = IdleProc]
                /\ last' = Answer(proc[p].kind, k, proc[p].pw, "live", e,
                                  ReadErrCode(e), Consumed(rows, rows', k))
                /\ hist' = [hist EXCEPT
                      ![k] = HistAnswer(@, proc[p].kind, proc[p].pw, e)]
                /\ Release(p)
           ELSE /\ proc' = [proc EXCEPT ![p].pc = "commit",
                              ![p].item = DecrementItem(proc[p].item, flags)]
                /\ reserved' = {p}
                /\ UNCHANGED <<shared, last, hist>>

\* db.Read, InTransaction: commit of the decrement; db.Read returns the item
\* to the handler, which goes on with it
ReadCommit(p) ==
    /\ proc[p].pc = "commit"
    /\ CanCommit(p)
    /\ LET kind == proc[p].kind
           flags == KindFlags(kind)
           k == proc[p].key
       IN  /\ rows' = [rows EXCEPT ![k] = UpdateRow(rows[k], flags)]
           /\ hist' = [hist EXCEPT
                 ![k].okText = IF FlagText \in flags THEN @ + 1 ELSE @,
                 ![k].okFile = IF FlagFile \in flags THEN @ + 1 ELSE @,
                 ![k].okAll = IF kind = "all" THEN @ + 1 ELSE @]
           /\ IF kind = "all"
              THEN /\ proc' = [proc EXCEPT ![p] = IdleProc]
                   /\ last' = Answer(kind, k, proc[p].pw, "live", ErrNone, 0,
                                     Consumed(rows, rows', k))
              ELSE /\ proc' = [proc EXCEPT
                         ![p].pc = IF kind = "file" THEN "stream" ELSE "check",
                         ![p].code = IF kind = "file" THEN 0 ELSE StatusOK,
                         ![p].dec = Consumed(rows, rows', k)]
                   /\ UNCHANGED last
    /\ Release(p)
    /\ UNCHANGED <<main, nextID, nextKey, blobs, limit, now, gc, delItem, nreq>>

\* fileHandler after db.Read: headers from the meta, then the file is
\* decrypted to the response; copyOK is whether the client takes the bytes
Stream(p, copyOK) ==
    /\ proc[p].pc = "stream"
    /\ LET e == Decrypt(proc[p].item, proc[p].pw, TRUE, copyOK, {FlagFile}, ErrNone)
       IN  proc' = [proc EXCEPT ![p].pc = "check",
                      ![p].err = IF proc[p].item.FileMeta = "" THEN ErrNone ELSE e,
                      ![p].code = IF proc[p].item.FileMeta = "" THEN StatusNoContent
                                  ELSE IF e # ErrNone THEN StatusInternalServerError
                                  ELSE StatusOK]
    /\ UNCHANGED <<main, rows, nextID, nextKey, blobs, limit, now, shared, reserved, gc,
                   delItem, nreq, hist, last>>

\* the send of CheckCounts panics: the channel is closed
SendPanics(p) == notActive(proc[p].item) /\ main = "closed"

\* Item.CheckCounts (deferred by both read handlers): an item without active
\* counters is sent to the deletion channel; the send waits for room, and
\* panics on a closed channel (the panic is recovered into a 500).  The
\* handler then returns its status.
CheckCounts(p) ==
    /\ proc[p].pc = "check"
    /\ IF notActive(proc[p].item) /\ ~SendPanics(p)
       THEN /\ Len(delItem) < DelItemCap
            /\ delItem' = Append(delItem, proc[p].item)
       ELSE UNCHANGED delItem
    /\ proc' = [proc EXCEPT ![p] = IdleProc]
    /\ last' = IF SendPanics(p)
               THEN Answer(proc[p].kind, proc[p].key, proc[p].pw, "live",
                           ErrClosed, StatusInternalServerError, proc[p].dec)
               ELSE Answer(proc[p].kind, proc[p].key, proc[p].pw, "live",
                           proc[p].err, proc[p].code, proc[p].dec)
    /\ hist' = [hist EXCEPT ![proc[p].key] =
                   HistAnswer(@, proc[p].kind, proc[p].pw, proc[p].err)]
    /\ UNCHANGED <<main, rows, nextID, nextKey, blobs, limit, now, shared, reserved, gc,
                   nreq>>

\* a probe that takes one attempt of every field
existsSQL_Decrement(key) ==
    IF readable(key, now) THEN [rows EXCEPT ![key] = UpdateRow(rows[key], AllFlags)]
    ELSE rows

\* db.Exists: the table after the statement, a SELECT
existsSQL(key) == rows

\* downloadHandler: db.Exists outside any transaction
Exists(p, key) ==
    /\ Accept(p)
    /\ CanShare
    /\ rows' = existsSQL(key)
    /\ last' = IF readable(key, now)
               THEN Answer("exists", key, "", RowState(key), ErrNone, StatusOK,
                           <<0, 0, 0>>)
               ELSE Answer("exists", key, "", RowState(key), ErrNoRows,
                           StatusNotFound, <<0, 0, 0>>)
    /\ UNCHANGED <<main, nextID, nextKey, blobs, limit, now, shared, reserved, gc,
                   delItem, hist, proc>>

\* ------------------------------------------------------------ clock
Clock == /\ now < MaxNow
         /\ now' = now + 1
         /\ UNCHANGED <<rows, nextID, nextKey, blobs, limit, shared, reserved,
                        proc, gc, delItem, nreq, hist, last, main>>

\* ------------------------------------------------------------ GC monitor
\* a selection by counters only
expiredKeys_CountersOnly(t) ==
    {k \in DOMAIN rows : rows[k].CountText < 1 /\ rows[k].CountFile < 1}

\* a selection that takes the rows at their date too
expiredKeys_AtDate(t) ==
    {k \in DOMAIN rows :
        rows[k].Expired <= t \/ (rows[k].CountText < 1 /\ rows[k].CountFile < 1)}

\* expired: the rows past their date or without active counters
expiredKeys(t) ==
    {k \in DOMAIN rows :
        rows[k].Expired < t \/ (rows[k].CountText < 1 /\ rows[k].CountFile < 1)}

\* ORDER BY id
RECURSIVE OrderByID(_)
OrderByID(ks) ==
    IF ks = {} THEN <<>>
    ELSE LET k == CHOOSE x \in ks : \A y \in ks : rows[x].ID <= rows[y].ID
         IN  <<[ID |-> rows[k].ID, FilePath |-> rows[k].FilePath]>>
             \o OrderByID(ks \ {k})

\* expired: SELECT id, file_path ... ORDER BY id
expired(t) == OrderByID(expiredKeys(t))

\* deleteFiles: files removed one by one; the first that cannot be removed
\* (it does not exist) stops the loop with an error
RECURSIVE deleteFiles(_, _)
deleteFiles(items, files) ==
    IF items = <<>> THEN [err |-> FALSE, files |-> files]
    ELSE IF Head(items).FilePath = 0 THEN deleteFiles(Tail(items), files)
    ELSE IF Head(items).FilePath \notin DOMAIN files
         THEN [err |-> TRUE, files |-> files]
    ELSE deleteFiles(Tail(items),
                     [f \in DOMAIN files \ {Head(items).FilePath} |-> files[f]])

\* deleteItems: DELETE FROM storage WHERE id IN (...)
deleteItems(items) ==
    LET ids == {items[i].ID : i \in 1..Len(items)}
    IN  [k \in {x \in DOMAIN rows : rows[x].ID \notin ids} |-> rows[k]]

GCWait == [pc |-> "wait", items |-> <<>>]

\* GCMonitor, case item := <-ch
GCRecv ==
    /\ gc.pc = "wait"
    /\ delItem # <<>>
    /\ gc' = [pc |-> "delete", items |-> <<[ID |-> Head(delItem).ID,
                                           FilePath |-> Head(delItem).FilePath]>>]
    /\ delItem' = Tail(delItem)
    /\ UNCHANGED <<main, rows, nextID, nextKey, blobs, limit, now, shared, reserved,
                   proc, nreq, hist, last>>

\* Item.Delete: the DELETE takes the writer lock (waiting for it)
GCDelete ==
    /\ gc.pc = "delete"
    /\ CanReserve(GC)
    /\ reserved' = {GC}
    /\ gc' = [gc EXCEPT !.pc = "deletecommit"]
    /\ UNCHANGED <<main, rows, nextID, nextKey, blobs, limit, now, shared, proc,
                   delItem, nreq, hist, last>>

\* Item.Delete: the writer lock stays taken past the busy timeout and the
\* DELETE fails; the monitor logs the error and leaves the file
GCDeleteBusy ==
    /\ gc.pc = "delete"
    /\ ~CanReserve(GC)
    /\ gc' = GCWait
    /\ UNCHANGED <<main, rows, nextID, nextKey, blobs, limit, now, shared,
                   reserved, proc, delItem, nreq, hist, last>>

\* Item.Delete: commit of the DELETE
GCDeleteCommit ==
    /\ gc.pc = "deletecommit"
    /\ CanCommit(GC)
    /\ rows' = deleteItems(gc.items)
    /\ Release(GC)
    /\ gc' = [gc EXCEPT !.pc = "deletefile"]
    /\ UNCHANGED <<main, nextID, nextKey, blobs, limit, now, proc, delItem, nreq, hist,
                   last>>

\* Item.Delete: deleteFiles(item) after the commit
GCDeleteFile ==
    /\ gc.pc = "deletefile"
    /\ blobs' = deleteFiles(gc.items, blobs).files
    /\ gc' = GCWait
    /\ UNCHANGED <<main, rows, nextID, nextKey, limit, now, shared, reserved, proc,
                   delItem, nreq, hist, last>>

\* GCMonitor, case <-ticker.C: deleteByDateOrCounters selects the expired
\* items; with none the transaction is committed as it is
GCTick ==
    /\ gc.pc = "wait"
    /\ CanShare
    /\ IF expired(now) = <<>>
       THEN UNCHANGED <<gc, shared>>
       ELSE /\ gc' = [pc |-> "sweep", items |-> expired(now)]
            /\ shared' = shared \cup {GC}
    /\ UNCHANGED <<main, rows, nextID, nextKey, blobs, limit, now, reserved, proc,
                   delItem, nreq, hist, last>>

\* deleteByDateOrCounters: deleteItems takes the writer lock or fails; then
\* deleteFiles removes the files, inside the transaction; an error rolls back
GCSweep ==
    /\ gc.pc = "sweep"
    /\ IF ~CanReserve(GC)
       THEN /\ gc' = GCWait
            /\ Release(GC)
            /\ UNCHANGED blobs
       ELSE LET d == deleteFiles(gc.items, blobs)
            IN  /\ blobs' = d.files
                /\ IF d.err
                   THEN /\ gc' = GCWait
                        /\ Release(GC)
                   ELSE /\ gc' = [gc EXCEPT !.pc = "sweepcommit"]
                        /\ reserved' = {GC}
                        /\ UNCHANGED shared
    /\ UNCHANGED <<main, rows, nextID, nextKey, limit, now, proc, delItem, nreq, hist,
                   last>>

\* deleteByDateOrCounters: commit of the sweep
GCSweepCommit ==
    /\ gc.pc = "sweepcommit"
    /\ CanCommit(GC)
    /\ rows' = deleteItems(gc.items)
    /\ Release(GC)
    /\ gc' = GCWait
    /\ UNCHANGED <<main, nextID, nextKey, blobs, limit, now, proc, delItem, nreq, hist,
                   last>>

GCStep == \/ GCRecv \/ GCDelete \/ GCDeleteCommit \/ GCDeleteFile
          \/ GCTick \/ GCSweep \/ GCSweepCommit

\* ------------------------------------------------------------ specification
\* values a client can put in the ttl and times fields
TTLs == 0..(MaxTTL + 1)
TimesValues == 0..(MaxTimes + 1)
\* the password of the uploads
UploadPasswords == {"pw"}

Upload(p) ==
    \E hasText \in BOOLEAN, hasFile \in BOOLEAN, size \in FileSizes,
       ttl \in TTLs, times \in TimesValues, password \in UploadPasswords :
        UploadValidate(p, MaxItems, hasText, hasFile, size, ttl, times,
                       password)

\* POST /api/text
textAPIHandler(p) ==
    \E key \in Keys, pw \in Passwords : ReadBegin(p, "text", key, pw, FALSE, TRUE)

\* POST /file
fileHandler(p) ==
    \E key \in Keys, pw \in Passwords : ReadBegin(p, "file", key, pw, FALSE, TRUE)

Handler(p) ==
    \/ Upload(p)
    \/ UploadInsert(p)
    \/ UploadCommit(p)
    \/ textAPIHandler(p)
    \/ fileHandler(p)
    \/ ReadUpdate(p)
    \/ ReadCommit(p)
    \/ \E copyOK \in BOOLEAN : Stream(p, copyOK)
    \/ CheckCounts(p)
    \/ \E key \in Keys : Exists(p, key)

Next == \/ \E p \in Handlers : Handler(p)
        \/ GCStep
        \/ Clock

Spec == Init /\ [][Next]_vars

\* db.Read called with every flag and a writer for the file, as a caller of
\* the package can
Read(p) ==
    \E key \in Keys, pw \in Passwords, copyOK \in BOOLEAN :
        ReadBegin(p, "all", key, pw, TRUE, copyOK)

NextAPI == \/ \E p \in Handlers : Handler(p)
           \/ \E p \in Handlers : Read(p)
           \/ GCStep
           \/ Clock

SpecAPI == Init /\ [][NextAPI]_vars

\* the service with every goroutine scheduled: the monitor, the handlers
\* that hold a request, and the clock
Progress(p) ==
    \/ UploadInsert(p)
    \/ UploadCommit(p)
    \/ ReadUpdate(p)
    \/ ReadCommit(p)
    \/ \E copyOK \in BOOLEAN : Stream(p, copyOK)
    \/ CheckCounts(p)

FairSpec ==
    /\ Spec
    /\ WF_vars(GCStep)
    /\ WF_vars(Clock)
    /\ \A p \in Handlers : WF_vars(Progress(p))

\* ------------------------------------------------------------ two items
\* the file of a stored item is removed from outside the service
FileLost(k) ==
    /\ k \in DOMAIN rows
    /\ k \in DOMAIN blobs
    /\ blobs' = [f \in DOMAIN blobs \ {k} |-> blobs[f]]
    /\ hist' = [hist EXCEPT ![k].lost = TRUE]
    /\ UNCHANGED <<main, rows, nextID, nextKey, limit, now, shared, reserved,
                   proc, gc, delItem, nreq, last>>

\* POST /upload of a text or of a file, for one read
PairUpload(p) ==
    \E hasFile \in BOOLEAN :
        UploadValidate(p, MaxPair, ~hasFile, hasFile, 1, 1, 1, "pw")

\* POST /api/text and POST /file with the password of the upload
PairRead(p) ==
    \E key \in PairKeys, kind \in {"text", "file"} :
        ReadBegin(p, kind, key, "pw", FALSE, TRUE)

PairHandler(p) ==
    \/ PairUpload(p)
    \/ UploadInsert(p)
    \/ UploadInsertBusy(p)
    \/ UploadCommit(p)
    \/ PairRead(p)
    \/ ReadUpdate(p)
    \/ ReadCommit(p)
    \/ \E copyOK \in BOOLEAN : Stream(p, copyOK)
    \/ CheckCounts(p)

\* the service with two items, where the INSERT of an upload and the DELETE
\* of the monitor can meet a writer, and files can go missing
NextPair == \/ \E p \in Handlers : PairHandler(p)
            \/ GCStep
            \/ GCDeleteBusy
            \/ Clock
            \/ \E k \in PairKeys : FileLost(k)

SpecPair == Init /\ [][NextPair]_vars

\* ------------------------------------------------------------ shutdown
\* main, signal goroutine: a signal arrives and srv.Shutdown is called; the
\* listener is closed, no request is accepted any more
Signal ==
    /\ main = "serve"
    /\ main' = "shutdown"
    /\ UNCHANGED <<rows, nextID, nextKey, blobs, limit, now, shared, reserved,
                   proc, gc, delItem, nreq, hist, last>>

\* srv.Shutdown returns, the handlers done or the shutdown timeout passed
\* with handlers still running; idleConnsClosed and gcShutdown are closed
ShutdownReturn ==
    /\ main = "shutdown"
    /\ main' = "gcstop"
    /\ UNCHANGED <<rows, nextID, nextKey, blobs, limit, now, shared, reserved,
                   proc, gc, delItem, nreq, hist, last>>

\* the monitor that returns only once the deletion channel is closed
GCStop_Closed ==
    /\ gc.pc = "wait"
    /\ main = "closed"
    /\ gc' = [pc |-> "stopped", items |-> <<>>]
    /\ UNCHANGED <<main, rows, nextID, nextKey, blobs, limit, now, shared,
                   reserved, proc, delItem, nreq, hist, last>>

\* GCMonitor, case <-shutdown: the monitor returns and closes done
GCStop ==
    /\ gc.pc = "wait"
    /\ main = "gcstop"
    /\ gc' = [pc |-> "stopped", items |-> <<>>]
    /\ UNCHANGED <<main, rows, nextID, nextKey, blobs, limit, now, shared,
                   reserved, proc, delItem, nreq, hist, last>>

\* main: <-idleConnsClosed, <-gcStopped, close(delItem)
CloseDelItem ==
    /\ main = "gcstop"
    /\ gc.pc = "stopped"
    /\ main' = "closed"
    /\ UNCHANGED <<rows, nextID, nextKey, blobs, limit, now, shared, reserved,
                   proc, gc, delItem, nreq, hist, last>>

NextShutdown == \/ Next
                \/ Signal
                \/ ShutdownReturn
                \/ GCStop
                \/ CloseDelItem

SpecShutdown == Init /\ [][NextShutdown]_vars

\* POST /upload of a file to be read once, and POST /file with its password
StopUpload(p) == UploadValidate(p, MaxItems, FALSE, TRUE, 1, 1, 1, "pw")

StopRead(p) == \E key \in Keys : ReadBegin(p, "file", key, "pw", FALSE, TRUE)

StopHandler(p) ==
    \/ StopUpload(p)
    \/ UploadInsert(p)
    \/ UploadCommit(p)
    \/ StopRead(p)
    \/ ReadUpdate(p)
    \/ ReadCommit(p)
    \/ \E copyOK \in BOOLEAN : Stream(p, copyOK)
    \/ CheckCounts(p)

\* the shutdown of a service whose files are read once: a shutdown finds the
\* deletion channel empty or full, and the monitor waiting, deleting or
\* sweeping
NextStop == \/ \E p \in Handlers : StopHandler(p)
            \/ GCStep
            \/ Clock
            \/ Signal
            \/ ShutdownReturn
            \/ GCStop
            \/ CloseDelItem

SpecStop == Init /\ [][NextStop]_vars

\* the shutdown with every goroutine scheduled: srv.Shutdown returns within
\* its timeout, the monitor and the handlers go on, main goes on, and a
\* select that finds the closed shutdown channel ready again and again
\* takes that case in the end
FairShutdown ==
    /\ SpecStop
    /\ WF_vars(ShutdownReturn)
    /\ WF_vars(GCStep)
    /\ SF_vars(GCStop)
    /\ WF_vars(CloseDelItem)
    /\ \A p \in Handlers : WF_vars(Progress(p))

\* ------------------------------------------------------------ passwords
\* POST /upload with a password or without one
UploadAuto(p) ==
    \E hasText \in BOOLEAN, hasFile \in BOOLEAN, times \in 1..MaxTimes,
       password \in UploadPasswords \cup {""} :
        UploadValidate(p, MaxPair, hasText, hasFile, 1, 1, times, password)

\* the uploads alone, up to their answer
NextUpload == \E p \in Handlers : \/ UploadAuto(p)
                                  \/ UploadInsert(p)
                                  \/ UploadCommit(p)

SpecUpload == Init /\ [][NextUpload]_vars

\* ------------------------------------------------------------ error switch
\* the requests of the read handlers
ReadKinds == {"text", "file"}

\* the errors db.Read can return to a handler
ReadErrors == {ErrNoRows, ErrNoAttempts, ErrSecret, ErrDecrement, ErrLocked}

\* textAPIHandler / fileHandler, db.Read has returned err (its transaction
\* rolled back by InTransaction): the switch over the error and the answer
ReadFailed(p, kind, key, pw, err) ==
    /\ Accept(p)
    /\ last' = Answer(kind, key, pw,
                      IF err = ErrNoRows THEN RowState(key) ELSE "live",
                      err, ReadErrCode(err), <<0, 0, 0>>)
    /\ UNCHANGED <<main, rows, nextID, nextKey, blobs, limit, now, shared,
                   reserved, proc, gc, delItem, hist>>

\* the read handlers under every error of db.Read
NextReadErr ==
    \E p \in Handlers, kind \in ReadKinds, key \in PairKeys, pw \in Passwords,
       err \in ReadErrors : ReadFailed(p, kind, key, pw, err)

SpecReadErr == Init /\ [][NextReadErr]_vars

\* ------------------------------------------------------------ InTransaction
\* an error value is the chain errors.Unwrap walks, outermost message first;
\* nil is the empty chain
Nil == <<>>
\* errors.New(msg)
NewError(msg) == <<msg>>
\* fmt.Errorf(msg + ": %w", err): the new error unwraps to err
Wrapf(msg, err) == <<msg>> \o err
\* errors.Is(err, target), target made by errors.New
Is(err, target) == \E i \in 1..Len(err) : <<err[i]>> = target

\* error of the driver for a rollback or a commit that fails
ErrBadConn == "driver: bad connection"
\* the errors of a closure, of tx.Rollback and of tx.Commit
ClosureErrors == {Nil, NewError(ErrNoRows), NewError(ErrLocked)}
DriverErrors == {Nil, NewError(ErrBadConn)}

\* InTransaction after BeginTx: the error it returns, from the error of the
\* closure, of tx.Rollback and of tx.Commit
TxError(fErr, rollbackErr, commitErr) ==
    IF fErr # Nil
    THEN LET err == Wrapf("rollback transaction", fErr)
         IN  IF rollbackErr # Nil
             THEN Wrapf("failed rollback: " \o "rollback transaction", rollbackErr)
             ELSE err
    ELSE IF commitErr # Nil THEN Wrapf("failed transaction commit", commitErr)
    ELSE Nil

\* InTransaction, BeginTx and f(tx): the closure inserts a row for key (as
\* the closure of Item.Save does) and returns fErr; what it wrote is private
\* to the transaction
TxClosure(p, key, fErr) ==
    /\ Accept(p)
    /\ key \notin DOMAIN rows
    /\ \A q \in Handlers : proc[q].key # key
    /\ proc' = [proc EXCEPT ![p] =
          [IdleProc EXCEPT !.pc = "tx", !.kind = "tx", !.key = key,
                           !.item = [EncryptItem(key, TRUE, FALSE, "pw", 1, 1)
                                        EXCEPT !.ID = key],
                           !.err = fErr]]
    /\ UNCHANGED <<main, rows, nextID, nextKey, blobs, limit, now, shared,
                   reserved, gc, delItem, hist, last>>

\* InTransaction after f(tx): tx.Rollback on an error of the closure,
\* tx.Commit otherwise; the error is returned to the caller
TxEnd(p, rollbackErr, commitErr) ==
    /\ proc[p].pc = "tx"
    /\ rows' = IF proc[p].err = Nil /\ commitErr = Nil
               THEN (proc[p].key :> proc[p].item) @@ rows
               ELSE rows
    /\ last' = Answer("tx", proc[p].key, "", "none",
                      TxError(proc[p].err, rollbackErr, commitErr), 0,
                      <<0, 0, 0>>)
    /\ proc' = [proc EXCEPT ![p] = IdleProc]
    /\ UNCHANGED <<main, nextID, nextKey, blobs, limit, now, shared, reserved,
                   gc, delItem, nreq, hist>>

\* transactions with every outcome of the closure, the rollback and the commit
NextTx == \E p \in Handlers :
             \/ \E key \in PairKeys, fErr \in ClosureErrors : TxClosure(p, key, fErr)
             \/ \E rollbackErr \in DriverErrors, commitErr \in DriverErrors :
                    TxEnd(p, rollbackErr, commitErr)

SpecTx == Init /\ [][NextTx]_vars

\* ------------------------------------------------------------ encrypt.File
\* bytes of the file of a key that are on disk; a file of FileSizes is whole
\* with its last byte
Written(key) == IF key \in DOMAIN blobs THEN blobs[key] ELSE 0

\* validateUpload up to encrypt.File, os.OpenFile: the request is valid, the
\* size is reserved, text and meta are encrypted and the file of the item is
\* created, empty
CreateOpen(p, hasText, size, times) ==
    /\ Accept(p)
    /\ LimitOK(size)
    /\ UploadError(hasText, TRUE, 1, times) = ErrNone
    /\ nextKey <= MaxItems
    /\ now + 1 < MaxNow
    /\ limit' = limit + size
    /\ nextKey' = nextKey + 1
    /\ blobs' = (nextKey :> 0) @@ blobs
    /\ proc' = [proc EXCEPT ![p] =
          [IdleProc EXCEPT !.pc = "copy", !.kind = "upload", !.key = nextKey,
             !.pw = UploadPassword("pw").password,
             !.times = times, !.code = size,
             !.AutoPassword = UploadPassword("pw").autoPassword,
             !.item = EncryptItem(nextKey, hasText, TRUE,
                                  UploadPassword("pw").password, times, 1)]]
    /\ UNCHANGED <<main, rows, nextID, now, shared, reserved, gc, delItem,
                   hist, last>>

\* encrypt.File, io.Copy and Close: the file is written to its end;
\* Item.Encrypt returns and uploadCommon goes on to Item.Save
CreateCopy(p) ==
    /\ proc[p].pc = "copy"
    /\ blobs' = [blobs EXCEPT ![proc[p].key] = proc[p].code]
    /\ proc' = [proc EXCEPT ![p].pc = "save", ![p].code = 0]
    /\ UNCHANGED <<main, rows, nextID, nextKey, limit, now, shared, reserved,
                   gc, delItem, nreq, hist, last>>

CreateHandler(p) ==
    \/ \E hasText \in BOOLEAN, size \in FileSizes, times \in 1..MaxTimes :
            CreateOpen(p, hasText, size, times)
    \/ CreateCopy(p)
    \/ UploadInsert(p)
    \/ UploadCommit(p)
    \/ textAPIHandler(p)
    \/ fileHandler(p)
    \/ ReadUpdate(p)
    \/ ReadCommit(p)
    \/ \E copyOK \in BOOLEAN : Stream(p, copyOK)
    \/ CheckCounts(p)
    \/ \E key \in Keys : Exists(p, key)

\* the service with the files of its uploads written byte after byte, while
\* other requests read and probe
NextCreate == \/ \E p \in Handlers : CreateHandler(p)
              \/ GCStep
              \/ Clock

SpecCreate == Init /\ [][NextCreate]_vars

\* ------------------------------------------------------------ encrypt.Text
\* bytes of two bits, and the two binary digits that encode one of them
Byte == 0..3
\* longest plaintext of a run
MaxText == 2
PlainTexts == UNION {[1..n -> Byte] : n \in 1..MaxText}
\* secrets and random salts of a run
Secrets == 0..1
SaltBytes == 0..1

\* a combination of bytes that is not its own inverse
Xor_Add(a, b) == (a + b) % 4

\* XORKeyStream on one byte: bitwise exclusive or
Xor(a, b) ==
    (((a % 2) + (b % 2)) % 2) + 2 * (((a \div 2) + (b \div 2)) % 2)

\* encrypt.Key: the key derived from secret and salt, and the hash of both
Key(secret, salt) ==
    [key |-> (2 * secret + salt + 1) % 4, hash |-> (secret + 2 * salt) % 4]

\* the block cipher under a key, applied to one block
Block(key, x) == (key + 2 * x + 1) % 4

\* cipher.NewCFBEncrypter, XORKeyStream: each byte is combined with the
\* cipher of the previous ciphertext byte, the iv first
RECURSIVE CFBEncrypt(_, _, _)
CFBEncrypt(key, prev, plain) ==
    IF plain = <<>> THEN <<>>
    ELSE LET c == Xor(Head(plain), Block(key, prev))
         IN  <<c>> \o CFBEncrypt(key, c, Tail(plain))

\* cipher.NewCFBDecrypter, XORKeyStream
RECURSIVE CFBDecrypt(_, _, _)
CFBDecrypt(key, prev, ciph) ==
    IF ciph = <<>> THEN <<>>
    ELSE <<Xor(Head(ciph), Block(key, prev))>>
         \o CFBDecrypt(key, Head(ciph), Tail(ciph))

\* hex.EncodeToString: two digits for a byte
RECURSIVE EncodeToString(_)
EncodeToString(bytes) ==
    IF bytes = <<>> THEN <<>>
    ELSE <<Head(bytes) \div 2, Head(bytes) % 2>> \o EncodeToString(Tail(bytes))

\* hex.DecodeString of a string of even length
RECURSIVE DecodeString(_)
DecodeString(digits) ==
    IF Len(digits) < 2 THEN <<>>
    ELSE <<2 * digits[1] + digits[2]>> \o DecodeString(Tail(Tail(digits)))

\* text.Encrypt: hex of the iv followed by the CFB ciphertext
textEncrypt(value, key, iv) ==
    IF value = <<>> THEN [value |-> <<>>, err |-> "empty text"]
    ELSE [value |-> EncodeToString(<<iv>> \o CFBEncrypt(key, iv, value)),
          err |-> ErrNone]

\* text.Decrypt: the iv is the first block of the decoded value
textDecrypt(value, key) ==
    IF value = <<>> THEN [value |-> <<>>, err |-> "empty text"]
    ELSE IF Len(value) % 2 # 0
         THEN [value |-> <<>>, err |-> "decrypt hex decode"]
    ELSE LET cipherText == DecodeString(value)
         IN  IF Len(cipherText) < 1
             THEN [value |-> <<>>,
                   err |-> "invalid decryption cipher block length"]
             ELSE [value |-> CFBDecrypt(key, Head(cipherText), Tail(cipherText)),
                   err |-> ErrNone]

\* encrypt.Text: Msg with the ciphertext, the salt and the hash
Text(secret, plainText, salt, iv) ==
    LET k == Key(secret, salt)
        c == textEncrypt(plainText, k.key, iv)
    IN  [Value |-> c.value, Salt |-> EncodeToString(<<salt>>),
         Hash |-> EncodeToString(<<k.hash>>), err |-> c.err]

\* encrypt.DecryptText on a Msg: the hash of the secret is verified, then
\* the value is decrypted
DecryptTextMsg(secret, m) ==
    LET k == Key(secret, Head(DecodeString(m.Salt)))
    IN  IF <<k.hash>> # DecodeString(m.Hash)
        THEN [value |-> <<>>, err |-> ErrSecret]
        ELSE textDecrypt(m.Value, k.key)

\* Item.encryptText: a text is encrypted under a secret, with a random salt
\* and a random iv
TextEncrypted(p, secret, plainText, salt, iv) ==
    /\ Accept(p)
    /\ last' = [kind |-> "Text", secret |-> secret, plain |-> plainText,
                m |-> Text(secret, plainText, salt, iv), with |-> secret,
                out |-> <<>>, err |-> ErrNone]
    /\ UNCHANGED <<main, rows, nextID, nextKey, blobs, limit, now, shared,
                   reserved, proc, gc, delItem, hist>>

\* Item.decryptText: the stored Msg is decrypted with a secret
TextDecrypted(secret) ==
    /\ last.kind = "Text"
    /\ last' = [last EXCEPT !.kind = "DecryptText", !.with = secret,
                            !.out = DecryptTextMsg(secret, last.m).value,
                            !.err = DecryptTextMsg(secret, last.m).err]
    /\ UNCHANGED <<main, rows, nextID, nextKey, blobs, limit, now, shared,
                   reserved, proc, gc, delItem, nreq, hist>>

\* texts encrypted and decrypted, with every secret, salt and iv
NextText ==
    \/ \E p \in Handlers, secret \in Secrets, plainText \in PlainTexts,
          salt \in SaltBytes, iv \in Byte :
            TextEncrypted(p, secret, plainText, salt, iv)
    \/ \E secret \in Secrets : TextDecrypted(secret)

SpecText == Init /\ [][NextText]_vars

\* ------------------------------------------------------------ properties
\* the errors with which a read is refused for want of a readable item
Refusals == {ErrNoRows, ErrNoAttempts}

\* 1 for a flag of the set, 0 otherwise
Asked(f, flags) == IF f \in flags THEN 1 ELSE 0

\* this step answers a read at once: its transaction ended where it began
AnsweredAtOnce ==
    /\ nreq' = nreq + 1
    /\ proc' = proc
    /\ last'.kind \in ReadKinds \cup {"all", "exists"}

\* C1: for an item uploaded with times = N, at most N reads of its text
\* succeed and at most N reads of its file succeed.
C1_AtMostTimesReads ==
    \A k \in Keys :
        hist[k].made => /\ hist[k].okText <= hist[k].times
                        /\ hist[k].okFile <= hist[k].times

\* C2: a read that commits with the flag set F has taken exactly one from the
\* stored counter of each aspect in F and nothing from the others.
C2_DecrementOnePerFlag ==
    \A p \in Handlers :
        proc[p].pc \in {"stream", "check"} =>
            LET flags == KindFlags(proc[p].kind)
            IN  proc[p].dec = <<Asked(FlagText, flags), Asked(FlagMeta, flags),
                                Asked(FlagFile, flags)>>

\* C3: a read request that fails at any step, the streaming of the file
\* included, has taken nothing from the stored counters.
C3_FailedReadKeepsCounters ==
    (last.kind \in ReadKinds /\ last.err # ErrNone) => last.dec = <<0, 0, 0>>

Budget(row, kind) ==
    /\ row.CountMeta >= 1
    /\ kind = "text" => row.CountText >= 1
    /\ kind = "file" => row.CountFile >= 1

C5_HalfOfTheReadsSucceed ==
    \A k \in Keys :
        (hist[k].made /\ ~hist[k].late) =>
            /\ (/\ hist[k].hasText
                /\ hist[k].nText = 2 * hist[k].times
                /\ hist[k].nFile = 0 /\ hist[k].okFile = 0)
                   => (hist[k].okText = hist[k].times /\ ~hist[k].odd)
            /\ (/\ hist[k].hasFile
                /\ hist[k].nFile = 2 * hist[k].times
                /\ hist[k].nText = 0 /\ hist[k].okText = 0)
                   => (hist[k].okFile = hist[k].times /\ ~hist[k].odd)

\* the stored counters of a row
Counts(row) == <<row.CountText, row.CountMeta, row.CountFile>>

\* C6: under any interleaving of reads and sweeps no stored counter goes
\* below zero, and the row a transaction has read is a committed row that
\* stays as it was read until that transaction ends: no decrement of another
\* read, whole or partial, lands under it.
C6_CountersAndSnapshots ==
    /\ \A k \in DOMAIN rows :
          rows[k].CountText >= 0 /\ rows[k].CountMeta >= 0
          /\ rows[k].CountFile >= 0
    /\ \A p \in Handlers :
          LET k == proc[p].key
              flags == KindFlags(proc[p].kind)
              mine == <<Asked(FlagText, flags), Asked(FlagMeta, flags),
                        Asked(FlagFile, flags)>>
              seen == Counts(proc[p].item)
          IN  /\ proc[p].pc = "update" =>
                    (k \in DOMAIN rows /\ Counts(rows[k]) = seen)
              /\ proc[p].pc = "commit" =>
                    (/\ k \in DOMAIN rows
                     /\ \A i \in 1..3 : Counts(rows[k])[i] = seen[i] + mine[i])
    /\ gc.pc \in {"sweep", "sweepcommit"} =>
          \A i \in 1..Len(gc.items) :
              \E k \in DOMAIN rows : rows[k].ID = gc.items[i].ID

\* two reads and a sweep hold the same row at once
C6_Witness ==
    /\ proc[1].pc = "commit"
    /\ proc[2].pc = "update"
    /\ proc[1].key = proc[2].key
    /\ gc.pc = "sweep"

\* C7: for an unexpired item with text and file and times = N, a read of the
\* text with the right password is not refused while fewer than N reads of
\* the text have succeeded, and a read of the file is not refused while fewer
\* than N reads of the file have succeeded, whatever was read of the other.
C7_AspectsAreIndependent ==
    [][(/\ AnsweredAtOnce
        /\ last'.kind \in ReadKinds
        /\ hist[last'.key].made
        /\ hist[last'.key].hasText /\ hist[last'.key].hasFile
        /\ last'.pw = hist[last'.key].pw
        /\ now <= hist[last'.key].expired
        /\ last'.kind = "text" => hist[last'.key].okText < hist[last'.key].times
        /\ last'.kind = "file" => hist[last'.key].okFile < hist[last'.key].times)
         => last'.err \notin Refusals]_vars

\* C8: for an unexpired item with text and file and times = N read only by
\* db.Read with every flag and the right password, a read is not refused
\* while fewer than N have succeeded and the next one finds no row; for an
\* item with text only read by POST /api/text the same holds.
C8_ExhaustedIsNotFound ==
    [][(/\ AnsweredAtOnce
        /\ hist[last'.key].made
        /\ last'.pw = hist[last'.key].pw
        /\ now <= hist[last'.key].expired
        /\ \/ /\ last'.kind = "all"
              /\ hist[last'.key].hasText /\ hist[last'.key].hasFile
              /\ hist[last'.key].okText = hist[last'.key].okAll
              /\ hist[last'.key].okFile = hist[last'.key].okAll
           \/ /\ last'.kind = "text"
              /\ hist[last'.key].hasText /\ ~hist[last'.key].hasFile
              /\ hist[last'.key].okAll = 0)
         => IF hist[last'.key].okText < hist[last'.key].times
            THEN last'.err \notin Refusals
            ELSE last'.err = ErrNoRows]_vars

\* C9: a read or an existence check of an item made after its date is
\* answered not-found and changes neither rows nor files, whether the row is
\* still stored or not.
C9_ExpiredIsNotFound ==
    [][/\ \A p \in Handlers :
            (proc[p].pc = "idle" /\ proc'[p].pc = "update")
               => ~(/\ hist[proc'[p].key].made
                    /\ now > hist[proc'[p].key].expired)
       /\ (/\ AnsweredAtOnce
           /\ last'.kind \in ReadKinds \cup {"exists"}
           /\ hist[last'.key].made
           /\ now > hist[last'.key].expired)
            => (/\ last'.err = ErrNoRows
                /\ last'.code = StatusNotFound
                /\ rows' = rows
                /\ blobs' = blobs)]_vars

\* a read answered not-found for a row that is still stored, with the
\* password of the upload and an attempt left
C9_Witness ==
    /\ last.kind \in ReadKinds
    /\ last.row = "dead"
    /\ last.err = ErrNoRows
    /\ last.pw = hist[last.key].pw
    /\ last.key \in DOMAIN rows
    /\ rows[last.key].CountText > 0
    /\ rows[last.key].Expired < now

\* a stored row that is expired or has neither text nor file attempts left
NonLive(k) ==
    /\ k \in DOMAIN rows
    /\ \/ now >= rows[k].Expired
       \/ (rows[k].CountText = 0 /\ rows[k].CountFile = 0)

BudgetUsed(k) ==
    /\ hist[k].made
    /\ ~hist[k].cut
    /\ hist[k].hasText => hist[k].okText >= hist[k].times
    /\ hist[k].hasFile => hist[k].okFile >= hist[k].times
    /\ \A p \in Handlers : proc[p].pc = "idle" \/ proc[p].key # k

\* the item of key k waits in the deletion channel
Queued(k) == \E i \in 1..Len(delItem) : delItem[i].Key = k

\* the monitor holds the item of key k: its row or its file is to be deleted
InHand(k) ==
    /\ gc.pc \notin {"wait", "stopped"}
    /\ \E i \in 1..Len(gc.items) :
          \/ gc.items[i].FilePath = k
          \/ (k \in DOMAIN rows /\ gc.items[i].ID = rows[k].ID)

\* C11: once the reads of an item have used its whole budget (times reads of
\* the text if it has one, times reads of the file if it has one), the item
\* has been sent to the deletion channel by the last read: it waits there,
\* or the monitor is deleting it, or its row and its file are gone.
C11_ExhaustedIsQueued ==
    \A k \in Keys :
        BudgetUsed(k) =>
            \/ Queued(k)
            \/ InHand(k)
            \/ (k \notin DOMAIN rows /\ k \notin DOMAIN blobs)

\* C12: every stored row that names a file has that file in the storage
\* directory, unless the monitor is deleting the row (or the file was removed
\* from outside the service); a sweep that is rolled back changes nothing
\* of that.
C12_RowsHaveTheirFiles ==
    \A k \in DOMAIN rows :
        rows[k].FilePath # 0 =>
            \/ rows[k].FilePath \in DOMAIN blobs
            \/ InHand(k)
            \/ hist[k].lost

\* the rows that name the file f
Owners(f) == {k \in DOMAIN rows : rows[k].FilePath = f}

\* C13: every file of the storage directory is named by exactly one stored
\* row, unless the upload that wrote it is still saving its row or the
\* monitor is deleting it; an upload whose INSERT fails leaves no file.
C13_FilesHaveTheirRows ==
    \A f \in DOMAIN blobs :
        \/ Cardinality(Owners(f)) = 1
        \/ \E p \in Handlers : proc[p].pc \in {"save", "savecommit"}
                                 /\ proc[p].key = f
        \/ InHand(f)

\* this step answers an upload at once: validateUpload rejected it
UploadRejected ==
    /\ nreq' = nreq + 1
    /\ proc' = proc
    /\ last'.kind = "upload"

\* C14: an upload that fails after the reservation of the size of its file
\* leaves the storage limit counter at its value before the upload.
C14_FailedUploadReleases ==
    [][UploadRejected => limit' = limit]_vars

\* the sizes of the files of a directory together
RECURSIVE SumSizes(_)
SumSizes(files) ==
    IF DOMAIN files = {} THEN 0
    ELSE LET f == CHOOSE x \in DOMAIN files : TRUE
         IN  files[f] + SumSizes([g \in DOMAIN files \ {f} |-> files[g]])

\* C15: the storage limit counter equals the sizes of the files of the
\* storage directory together, and a deletion of files by the monitor takes
\* their sizes from the counter.
C15_LimitIsSumOfFiles ==
    /\ [](limit = SumSizes(blobs))
    /\ [][(gc' # gc /\ blobs' # blobs)
            => limit - limit' = SumSizes(blobs) - SumSizes(blobs')]_vars

\* C16: Storage.Limit adds the size to the counter when the sum stays within
\* the storage size, and fails leaving the counter as it was otherwise; the
\* counter never passes the storage size, whatever the uploads in flight.
C16_LimitNeverExceeded ==
    /\ [](limit >= 0 /\ limit <= StorageSize)
    /\ [][/\ ((UploadRejected /\ last'.err = ErrLimit)
                 => (/\ limit' = limit
                     /\ \E v \in FileSizes : limit + v > StorageSize))
           /\ ((limit' # limit)
                 => (/\ nreq' = nreq + 1
                     /\ \E v \in FileSizes : /\ limit' = limit + v
                                              /\ limit + v <= StorageSize))]_vars

\* an upload refused by a full storage while another upload is being saved
C16_Witness ==
    /\ last.kind = "upload"
    /\ last.err = ErrLimit
    /\ limit = StorageSize
    /\ \E p \in Handlers : proc[p].pc \in {"save", "savecommit"}

\* C17: an upload refused for want of room in the storage is answered 507
\* and leaves neither row nor file.
C17_StorageFullIs507 ==
    (last.kind = "upload" /\ last.err = ErrLimit) => last.code = 507

\* C18: a handler that has an item for the deletion channel never waits
\* for room in it: its next step can be taken at once.
C18_SendNeverWaits ==
    \A p \in Handlers :
        (proc[p].pc = "check" /\ notActive(proc[p].item))
            => Len(delItem) < DelItemCap

\* C19: no handler is at the send of CheckCounts with an item to send when
\* main has closed the deletion channel.
C19_NoSendOnClosedChannel ==
    \A p \in Handlers :
        ~(/\ main = "closed"
          /\ proc[p].pc = "check"
          /\ notActive(proc[p].item))

\* C20: a sweep that has the writer lock deletes the rows it selected and
\* the files of them that exist, and is committed, whether a file is missing
\* or not.
C20_MissingFileIsNoError ==
    [][(gc.pc = "sweep" /\ gc'.pc # "sweep" /\ CanReserve(GC))
        => (/\ gc'.pc = "sweepcommit"
            /\ \A i \in 1..Len(gc.items) :
                  gc.items[i].FilePath \notin DOMAIN blobs')]_vars

\* C21: a read whose transaction ends while a sweep that selected its row
\* holds the writer lock is answered "not found" (404) and has taken
\* nothing from the counters.
C21_SweepFirstIsNotFound ==
    [][\A p \in Handlers :
          (/\ proc[p].pc = "update"
           /\ proc'[p].pc = "idle"
           /\ gc.pc = "sweepcommit"
           /\ \E i \in 1..Len(gc.items) : gc.items[i].ID = proc[p].item.ID)
              => (/\ last'.err = ErrNoRows
                  /\ last'.code = StatusNotFound
                  /\ last'.dec = <<0, 0, 0>>)]_vars

\* C22: a read of a file that is committed finds the file in the storage
\* directory when it streams it.
C22_StreamFindsTheFile ==
    \A p \in Handlers :
        (proc[p].pc = "stream" /\ proc[p].item.FileMeta # "")
            => proc[p].item.FilePath \in DOMAIN blobs

\* C23: the probe of a key (db.Exists behind GET /{key}) leaves the rows
\* with their counters and dates, the files, the storage counter and the
\* deletion channel as they were, whether the item is found or not.
C23_ExistsChangesNothing ==
    [][(AnsweredAtOnce /\ last'.kind = "exists")
        => (/\ rows' = rows
            /\ blobs' = blobs
            /\ limit' = limit
            /\ delItem' = delItem)]_vars

\* a probe has found an item that is still stored
C23_Witness ==
    /\ last.kind = "exists"
    /\ last.code = StatusOK
    /\ last.key \in DOMAIN rows
    /\ rows[last.key].CountText > 0

\* the row has no attempt left for one of the fields a read of kind asks
Exhausted(row, kind) ==
    \/ (FlagText \in KindFlags(kind) /\ row.CountText < 1)
    \/ (FlagMeta \in KindFlags(kind) /\ row.CountMeta < 1)
    \/ (FlagFile \in KindFlags(kind) /\ row.CountFile < 1)

\* C24: a read of a key that does not exist, of an expired item and of an
\* item without attempts left are answered alike: status 404 with the
\* message "not found".
C24_ThreeCasesOneAnswer ==
    [][(/\ AnsweredAtOnce
        /\ last'.kind \in ReadKinds
        /\ \/ last'.key \notin DOMAIN rows
           \/ rows[last'.key].Expired < now
           \/ Exhausted(rows[last'.key], last'.kind))
        => (/\ last'.code = StatusNotFound
            /\ ReadErrBody(last'.kind, last'.err) = "not found")]_vars

\* a read of an unexpired item without attempts left has been answered
C24_Witness ==
    /\ last.kind \in ReadKinds
    /\ last.key \in DOMAIN rows
    /\ rows[last.key].Expired >= now
    /\ Exhausted(rows[last.key], last.kind)
    /\ last.err = ErrNoAttempts

Created == {p \in Handlers : proc[p].pc \in {"save", "savecommit"}}

\* C26: an item created with times = N has CountText = N with a text and 0
\* without, CountFile = N with a file and 0 without, and CountMeta =
\* CountText + CountFile.
C26_CountersAtCreation ==
    \A p \in Created :
        LET item == proc[p].item
            N == proc[p].times
        IN  /\ item.CountText = (IF item.Text # "" THEN N ELSE 0)
            /\ item.CountFile = (IF item.FileMeta # "" THEN N ELSE 0)
            /\ item.CountMeta = item.CountText + item.CountFile
            /\ (item.Text # "" /\ item.FileMeta # "") => item.CountMeta = 2 * N
            /\ (item.Text = "" \/ item.FileMeta = "") => item.CountMeta = N

\* an item with a text and a file is created with times = MaxTimes
C26_Witness ==
    \E p \in Created :
        /\ proc[p].item.Text # ""
        /\ proc[p].item.FileMeta # ""
        /\ proc[p].times = MaxTimes
        /\ proc[p].item.CountMeta = 2 * MaxTimes

\* the field has neither hash nor salt
Bare(hash, salt) == hash = NoHash /\ salt = NoSalt

\* C27: at creation, for the text, the file meta and the file: the stored
\* ciphertext (or file path) is empty if and only if its hash is empty, its
\* salt is empty and its counter is 0.
C27_EmptyIffBareAndZero ==
    \A p \in Created :
        LET item == proc[p].item
        IN  /\ (item.Text = "")
                 <=> (Bare(item.HashText, item.SaltText) /\ item.CountText = 0)
            /\ (item.FileMeta = "")
                 <=> (Bare(item.HashMeta, item.SaltMeta) /\ item.CountMeta = 0)
            /\ (item.FilePath = 0)
                 <=> (Bare(item.HashFile, item.SaltFile) /\ item.CountFile = 0)

\* C27, as the code has it: at creation, the text and the file have an
\* empty ciphertext (or path) if and only if their hash and salt are empty
\* and their counter is 0; the file meta is empty if and only if its hash
\* and salt are empty, which is when the item has no file, and its counter
\* is the sum of the other two, positive also without a file.
C27_EmptyIffBare ==
    \A p \in Created :
        LET item == proc[p].item
        IN  /\ (item.Text = "")
                 <=> (Bare(item.HashText, item.SaltText) /\ item.CountText = 0)
            /\ (item.FilePath = 0)
                 <=> (Bare(item.HashFile, item.SaltFile) /\ item.CountFile = 0)
            /\ (item.FileMeta = "") <=> Bare(item.HashMeta, item.SaltMeta)
            /\ (item.FileMeta = "") <=> (item.FilePath = 0)
            /\ (item.Text = "") => (item.HashText = NoHash /\ item.SaltText = NoSalt)
            /\ (item.Text # "") => (item.HashText # NoHash /\ item.SaltText # NoSalt)
            /\ (item.FileMeta # "") => (item.HashMeta # NoHash /\ item.SaltMeta # NoSalt)
            /\ (item.FilePath # 0) => (item.HashFile # NoHash /\ item.SaltFile # NoSalt)
            /\ item.CountMeta = item.CountText + item.CountFile
            /\ item.CountMeta > 0

\* an item with a text and without a file is created
C27_Witness ==
    \E p \in Created :
        /\ proc[p].item.Text # ""
        /\ proc[p].item.FileMeta = ""
        /\ proc[p].item.CountMeta > 0
        /\ Bare(proc[p].item.HashMeta, proc[p].item.SaltMeta)

\* C28: an upload with neither text nor file is rejected with 400 and
\* leaves the rows, the files and the storage counter as they were; no item
\* without text and without file is ever created.
C28_EmptyUploadIsRejected ==
    [][/\ (UploadRejected /\ last'.err = ErrEmpty)
            => (/\ last'.code = StatusBadRequest
                /\ rows' = rows
                /\ blobs' = blobs
                /\ limit' = limit
                /\ nextKey' = nextKey)
       /\ \A p \in Handlers :
            proc'[p].pc \in {"save", "savecommit"}
                => (proc'[p].item.Text # "" \/ proc'[p].item.FileMeta # "")
       /\ \A k \in DOMAIN rows' :
            rows'[k].Text # "" \/ rows'[k].FileMeta # ""]_vars

\* an upload with neither text nor file has been rejected
C28_Witness ==
    /\ last.kind = "upload"
    /\ last.err = ErrEmpty
    /\ last.code = StatusBadRequest

\* C29: no step raises a stored counter: CountText, CountMeta and CountFile
\* of every stored item are after the step what they were or smaller.
C29_CountersNeverIncrease ==
    [][\A k \in DOMAIN rows \cap DOMAIN rows' :
          /\ rows'[k].CountText <= rows[k].CountText
          /\ rows'[k].CountMeta <= rows[k].CountMeta
          /\ rows'[k].CountFile <= rows[k].CountFile]_vars

\* a stored item has fewer attempts for its text than it was created with
C29_Witness ==
    \E k \in DOMAIN rows :
        /\ hist[k].made
        /\ hist[k].hasText
        /\ rows[k].CountText < hist[k].times

\* C30: the answer to a successful upload carries the password in clear
\* exactly when no password was supplied and the server generated it; for a
\* password of the uploader it carries the placeholder and pwd_disable.
C30_PasswordShownIffGenerated ==
    (last.kind = "upload" /\ last.code = StatusCreated)
        => /\ (last.pw = "")
                => (/\ last.Password = Generated
                    /\ last.Password = hist[last.key].pw
                    /\ ~last.PwdDisable)
           /\ (last.pw # "")
                => (/\ last.Password = Masked
                    /\ last.Password # hist[last.key].pw
                    /\ last.PwdDisable)

\* an upload without a password has been answered with its item saved
C30_Witness ==
    /\ last.kind = "upload"
    /\ last.code = StatusCreated
    /\ last.pw = ""
    /\ last.Password = Generated
    /\ last.key \in DOMAIN rows

\* C31: for an item uploaded with a file and no text and times = 1, the
\* first read by POST /api/text with the password of the upload, before the
\* date of the item, is not refused (it returns the empty text with the meta
\* of the file).
C31_FileOnlyTextReadSucceeds ==
    [][(/\ AnsweredAtOnce
        /\ last'.kind = "text"
        /\ hist[last'.key].made
        /\ ~hist[last'.key].hasText /\ hist[last'.key].hasFile
        /\ hist[last'.key].times = 1
        /\ last'.pw = hist[last'.key].pw
        /\ now <= hist[last'.key].expired
        /\ hist[last'.key].okText = 0
        /\ hist[last'.key].okFile = 0)
         => (last'.err \notin Refusals /\ last'.code # StatusNotFound)]_vars

\* C32: for an item uploaded with a text and a file and times = 1, a read of
\* the file that has committed leaves the stored CountFile at 0, and a read
\* of the text by POST /api/text that follows is answered 404.
C32_FileReadThenTextIs404 ==
    [][/\ \A k \in DOMAIN rows' :
            (/\ hist'[k].hasText /\ hist'[k].hasFile
             /\ hist'[k].times = 1
             /\ hist'[k].okFile = 1)
                => rows'[k].CountFile = 0
       /\ \A p \in Handlers :
            (/\ proc'[p].kind = "text"
             /\ proc'[p].pc = "update"
             /\ proc[p].pc = "idle"
             /\ hist[proc'[p].key].hasText /\ hist[proc'[p].key].hasFile
             /\ hist[proc'[p].key].times = 1)
                => hist[proc'[p].key].okFile = 0]_vars

\* C33: the secret every field of a created item was encrypted with is the
\* password of the upload (supplied or generated) with settings.salt
\* appended.
C33_SecretIsPasswordAndSalt ==
    \A p \in Created :
        LET item == proc[p].item
        IN  /\ item.Text # "" => item.HashText = Secret(proc[p].pw)
            /\ item.FileMeta # "" => item.HashMeta = Secret(proc[p].pw)
            /\ item.FilePath # 0 => item.HashFile = Secret(proc[p].pw)

\* C37: at every instant each stored row is selected either by the reads
\* (Item.read, Exists) or by the sweep of the reaper, never by both and
\* never by neither.
C37_ReadableOrSweepable ==
    \A k \in DOMAIN rows :
        \A t \in 0..MaxNow :
            readable(k, t) <=> (k \notin expiredKeys(t))

\* a row at its date, still readable, and a moment later not
C37_Witness ==
    \E k \in DOMAIN rows :
        /\ rows[k].Expired = now
        /\ readable(k, now)
        /\ k \notin expiredKeys(now)
        /\ k \in expiredKeys(now + 1)

\* C38: when db.Read commits, the counters of the item it returns are the
\* counters of the committed row.
C38_ReturnedCountersAreStored ==
    [][\A p \in Handlers :
          (proc[p].pc = "commit" /\ proc'[p].pc # "commit")
              => Counts(rows'[proc[p].key]) = Counts(proc[p].item)]_vars

\* C39: the stored counters of every row satisfy CountMeta = CountText +
\* CountFile, from the creation of the row to its deletion.
C39_MetaIsSumOfTextAndFile ==
    \A k \in DOMAIN rows :
        rows[k].CountMeta = rows[k].CountText + rows[k].CountFile

\* C35: a transaction is committed exactly when its closure returns no
\* error (and the commit succeeds); after an error of the closure nothing it
\* wrote is stored, and the error InTransaction returns wraps the error of
\* the closure, also when the rollback fails.
C35_RollbackKeepsTheError ==
    [][\A p \in Handlers :
          (proc[p].pc = "tx" /\ proc'[p].pc = "idle")
              => /\ (proc[p].key \in DOMAIN rows') => proc[p].err = Nil
                 /\ proc[p].err # Nil
                      => (/\ rows' = rows
                          /\ Is(last'.err, proc[p].err))]_vars

\* C34: a non-empty text encrypted under a secret and decrypted with the
\* same secret is the text again, and the stored value is not empty and is
\* not the text.
C34_TextRoundTrip ==
    /\ last.kind \in {"Text", "DecryptText"}
         => (/\ last.m.err = ErrNone
             /\ last.m.Value # <<>>
             /\ last.m.Value # last.plain)
    /\ (last.kind = "DecryptText" /\ last.with = last.secret)
         => (last.err = ErrNone /\ last.out = last.plain)

\* a text of the longest length has been encrypted and decrypted with its
\* secret
C34_Witness ==
    /\ last.kind = "DecryptText"
    /\ last.with = last.secret
    /\ Len(last.plain) = MaxText
    /\ last.out = last.plain

\* C36: once the shutdown is signalled the monitor in the end has stopped
\* and closed done, and main has then terminated, whatever the deletion
\* channel holds and whatever deletion or sweep is under way.
C36_ShutdownTerminates ==
    (main # "serve") ~> (gc.pc = "stopped" /\ main = "closed")

\* main has terminated after a shutdown signalled during a deletion, with
\* an item still in the deletion channel
C36_Witness ==
    /\ main = "closed"
    /\ gc.pc = "stopped"
    /\ delItem # <<>>

\* the keys whose file is being written by an upload
Writing == {proc[p].key : p \in {q \in Handlers : proc[q].pc = "copy"}}

\* C40: a row is stored only once its file is written to the end: while
\* the file of a key is being written the key has no row, no read holds its
\* item and no read or probe has found it, and the file of every stored row
\* is whole.
C40_RowAfterWholeFile ==
    /\ \A k \in DOMAIN rows :
           (rows[k].FilePath \in DOMAIN blobs)
               => Written(rows[k].FilePath) \in FileSizes
    /\ \A k \in Writing :
           /\ k \notin DOMAIN rows
           /\ \A q \in Handlers :
                  (proc[q].pc \in {"update", "commit", "stream", "check"})
                      => proc[q].key # k
           /\ (last.kind \in {"text", "file", "exists"} /\ last.key = k)
                  => last.err # ErrNone

\* a read of the file finds no row while the file of its key is being
\* written
C40_Witness ==
    \E k \in Writing :
        /\ Written(k) \notin FileSizes
        /\ last.kind = "file"
        /\ last.key = k
        /\ last.err = ErrNoRows

====
